---------------------------- MODULE Spec2Model ----------------------------
(***************************************************************************)
(* Model of the loan calculator of loan_calculator.py: the financial       *)
(* arithmetic of FinancialCalculator (with the Newton iteration of         *)
(* calculate_irr), the derivation done by LoanRecord, and the record list  *)
(* kept by LoanCalculatorWindow.                                           *)
(*                                                                         *)
(* Python's float is the IEEE 754 binary64 format.  The numbers of the     *)
(* model are exactly those: a sign, a 53 bit significand and a binary      *)
(* exponent, every operation rounded to nearest, ties to even.  TLC's      *)
(* integers have 32 bits, so a significand is held as a sequence of 14 bit *)
(* limbs, least significant first.                                         *)
(***************************************************************************)
EXTENDS Integers, Sequences, FiniteSets, TLC

(***************************************************************************)
(* Natural numbers of any size: sequences of limbs, least significant      *)
(* first, without leading zero limbs (zero is the empty sequence).         *)
(***************************************************************************)
LimbBits == 7 + 7

Pow2(n) == IF n <= 0 THEN 1 ELSE
           CASE n = 1 -> 2 [] n = 2 -> 4 [] n = 3 -> 8 [] n = 4 -> 16
             [] n = 5 -> 32 [] n = 6 -> 64 [] n = 7 -> 128 [] n = 8 -> 256
             [] n = 9 -> 512 [] n = 10 -> 1024 [] n = 11 -> 2048
             [] n = 12 -> 4096 [] n = 13 -> 8192 [] OTHER -> 16384

LimbBase == Pow2(LimbBits)

\* The operations on limbs are written without recursion over the limbs:
\* a carry is found by looking at the lower limbs, not handed upwards.  A
\* value that is used more than once is handed to an operator as an
\* argument.

\* The sequence with the elements of f, a function on 1 .. n.
BSeq(f) == f \o <<>>

Limb(a, j) == IF 1 <= j /\ j <= Len(a) THEN a[j] ELSE 0

Max(m, n) == IF m >= n THEN m ELSE n
Min(m, n) == IF m <= n THEN m ELSE n

\* a without its leading zero limbs.
BNorm(a) ==
    SubSeq(a, 1, CHOOSE n \in 0 .. Len(a) :
                    /\ n = 0 \/ a[n] # 0
                    /\ \A l \in n + 1 .. Len(a) : a[l] = 0)

BFromInt(n) == BNorm(<<n % LimbBase, (n \div LimbBase) % LimbBase,
                       n \div (LimbBase * LimbBase)>>)

\* The number whose limb j is s[j], each s[j] below 2 * LimbBase - 1: limb j
\* takes a carry when a lower limb i overflows and the limbs between i and j
\* are all full.
BCarry(s) ==
    BNorm(BSeq([j \in 1 .. Len(s) |->
        (s[j] + (IF \E i \in 1 .. j - 1 :
                       /\ s[i] >= LimbBase
                       /\ \A l \in i + 1 .. j - 1 : s[l] = LimbBase - 1
                 THEN 1 ELSE 0)) % LimbBase]))

\* a + b.
BAdd(a, b) ==
    BCarry(BSeq([j \in 1 .. Max(Len(a), Len(b)) + 1 |->
                    Limb(a, j) + Limb(b, j)]))

\* The number whose limb j is d[j], each d[j] above -LimbBase: limb j gives
\* a borrow when a lower limb i is short and the limbs between i and j are
\* all zero.
BBorrow(d) ==
    BNorm(BSeq([j \in 1 .. Len(d) |->
        (d[j] - (IF \E i \in 1 .. j - 1 :
                       /\ d[i] < 0
                       /\ \A l \in i + 1 .. j - 1 : d[l] = 0
                 THEN 1 ELSE 0)) % LimbBase]))

\* a - b, for a >= b.
BSub(a, b) == BBorrow(BSeq([j \in 1 .. Len(a) |-> a[j] - Limb(b, j)]))

\* -1, 0 or 1 as a < b, a = b or a > b.
BCmp(a, b) ==
    IF Len(a) < Len(b) THEN -1
    ELSE IF Len(a) > Len(b) THEN 1
    ELSE IF a = b THEN 0
    ELSE IF \E j \in 1 .. Len(a) :
               /\ a[j] < b[j]
               /\ \A l \in j + 1 .. Len(a) : a[l] = b[l]
         THEN -1 ELSE 1

\* a * k, for a limb k.
BMulS(a, k) ==
    IF k = 0 THEN <<>>
    ELSE BAdd(BSeq([j \in 1 .. Len(a) |-> (a[j] * k) % LimbBase]),
              BSeq([j \in 1 .. Len(a) + 1 |->
                       (Limb(a, j - 1) * k) \div LimbBase]))

\* The product of limb i of a with the limb of b that falls into column j.
LimbProduct(a, b, i, j) == Limb(a, i) * Limb(b, j - i + 1)

\* The sum of the columns col, each below 2^31: a column is split into
\* three limbs.
BColumns(col) ==
    BAdd(BAdd(BSeq([j \in 1 .. Len(col) |-> col[j] % LimbBase]),
              BSeq([j \in 1 .. Len(col) + 1 |->
                       (Limb(col, j - 1) \div LimbBase) % LimbBase])),
         BSeq([j \in 1 .. Len(col) + 2 |->
                  Limb(col, j - 2) \div (LimbBase * LimbBase)]))

\* a * b, for a of at most 7 limbs and neither zero.
BMulCols(a, b) ==
    BColumns(BSeq([j \in 1 .. Len(a) + Len(b) - 1 |->
        LimbProduct(a, b, 1, j) + LimbProduct(a, b, 2, j)
        + LimbProduct(a, b, 3, j) + LimbProduct(a, b, 4, j)
        + LimbProduct(a, b, 5, j) + LimbProduct(a, b, 6, j)
        + LimbProduct(a, b, 7, j)]))

BMul(a, b) == IF a = <<>> \/ b = <<>> THEN <<>>
              ELSE BMulCols(IF Len(a) <= Len(b) THEN a ELSE b,
                            IF Len(a) <= Len(b) THEN b ELSE a)

\* a * k, for k = 2^n a power of two below LimbBase.
BScale(a, k) ==
    BNorm(BSeq([j \in 1 .. Len(a) + 1 |->
                   ((Limb(a, j) * k) % LimbBase)
                   + ((Limb(a, j - 1) * k) \div LimbBase)]))

\* a * 2^n.
BShl(a, n) ==
    IF a = <<>> \/ n <= 0 THEN a
    ELSE BSeq([j \in 1 .. n \div LimbBits |-> 0])
         \o BScale(a, Pow2(n % LimbBits))

\* floor(a / (LimbBase^w * k)) for w < Len(a) and k a power of two below
\* LimbBase, and whether a bit was shifted out.
BCut(a, w, k) ==
    [q |-> BNorm(BSeq([j \in 1 .. Len(a) - w |->
                (a[w + j] \div k)
                + ((Limb(a, w + j + 1) % k) * (LimbBase \div k))])),
     sticky |-> (a[w + 1] % k) # 0 \/ \E j \in 1 .. w : a[j] # 0]

\* floor(a / 2^n), and whether a bit was shifted out.
BShr(a, n) ==
    IF n <= 0 THEN [q |-> a, sticky |-> FALSE]
    ELSE IF n \div LimbBits >= Len(a) THEN [q |-> <<>>, sticky |-> a # <<>>]
    ELSE BCut(a, n \div LimbBits, Pow2(n % LimbBits))

\* The number of bits of a limb, and of a.
IntBits(n) ==
    IF n < 128
    THEN IF n < 8
         THEN (IF n < 2 THEN (IF n < 1 THEN 0 ELSE 1)
               ELSE IF n < 4 THEN 2 ELSE 3)
         ELSE (IF n < 32 THEN (IF n < 16 THEN 4 ELSE 5)
               ELSE IF n < 64 THEN 6 ELSE 7)
    ELSE IF n < 2048
         THEN (IF n < 512 THEN (IF n < 256 THEN 8 ELSE 9)
               ELSE IF n < 1024 THEN 10 ELSE 11)
         ELSE (IF n < 8192 THEN (IF n < 4096 THEN 12 ELSE 13)
               ELSE 14)

BBits(a) == IF a = <<>> THEN 0
            ELSE (Len(a) - 1) * LimbBits + IntBits(a[Len(a)])

BIsOdd(a) == a # <<>> /\ a[1] % 2 = 1

\* Long division of a by b, for b with the top bit of its top limb set: the
\* limbs of a from the i-th down are brought into the remainder r one at a
\* time; q collects the digits.  A digit is estimated from the top limbs of
\* r and b; the estimate g, with t = b * g, is at most 2 too large.
RECURSIVE BDivAt(_, _, _, _, _)
RECURSIVE BDivTry(_, _, _, _, _, _, _)
BDivTry(a, b, i, r, q, g, t) ==
    IF BCmp(t, r) <= 0 THEN BDivAt(a, b, i - 1, BSub(r, t), <<g>> \o q)
    ELSE BDivTry(a, b, i, r, q, g - 1, BSub(t, b))

BDivDigit(a, b, i, r, q, g) == BDivTry(a, b, i, r, q, g, BMulS(b, g))

BDivStep(a, b, i, r, q) ==
    BDivDigit(a, b, i, r, q,
              Min(LimbBase - 1,
                  (Limb(r, Len(b) + 1) * LimbBase + Limb(r, Len(b)))
                      \div b[Len(b)]))

BDivAt(a, b, i, r, q) ==
    IF i = 0 THEN [q |-> q, r |-> r]
    ELSE BDivStep(a, b, i, BNorm(<<a[i]>> \o r), q)

\* The quotient of the long division d, and whether it left a remainder.
BDivResult(d) == [q |-> BNorm(d.q), sticky |-> d.r # <<>>]

\* floor(a / b) for b with the top bit of its top limb set.
BDivNorm(a, b) ==
    BDivResult(IF Len(a) < Len(b) THEN [q |-> <<>>, r |-> a]
               ELSE BDivAt(a, b, Len(a) - Len(b) + 1,
                           BNorm(SubSeq(a, Len(a) - Len(b) + 2, Len(a))),
                           <<>>))

\* floor(a / b), and whether the division left a remainder; b > 0.
BDiv(a, b) == BDivNorm(BShl(a, LimbBits - IntBits(b[Len(b)])),
                       BShl(b, LimbBits - IntBits(b[Len(b)])))


(***************************************************************************)
(* Python floats.  A value is a record with k = "fin" (the number          *)
(* (-1)^s * m * 2^e, m below 2^53 and, unless e is the least exponent, not *)
(* below 2^52; zero has m = <<>> and e = 0), k = "inf", or k = "nan".  An  *)
(* exception raised by an operation is a record too, its k the name of the *)
(* exception, and every operation passes an exception on, as the raise     *)
(* unwinds the expression.                                                  *)
(***************************************************************************)
FloatBits == 53
FloatMinExp == -1074
FloatMaxExp == 1024

Fin(s, m, e) == [k |-> "fin", s |-> s, m |-> m, e |-> e]
Zero(s) == Fin(s, <<>>, 0)
Inf(s) == [k |-> "inf", s |-> s, m |-> <<>>, e |-> 0]
NaN == [k |-> "nan", s |-> 0, m |-> <<>>, e |-> 0]
Raise(what) == [k |-> what, s |-> 0, m |-> <<>>, e |-> 0]
ZeroDivisionError == Raise("ZeroDivisionError")
OverflowError == Raise("OverflowError")

IsErr(x) == x.k \notin {"fin", "inf", "nan"}
IsZero(x) == x.k = "fin" /\ x.m = <<>>
Xor(s, t) == IF s = t THEN 0 ELSE 1

\* The float (-1)^s * m * 2^e of a significand m that fits.
RoundEnd(s, m, e) ==
    IF m = <<>> THEN Zero(s)
    ELSE IF BBits(m) + e > FloatMaxExp THEN Inf(s)
    ELSE Fin(s, m, e)

\* A significand that the rounding has carried up to 2^53 is halved.
RoundCarry(s, m, e) ==
    IF BBits(m) > FloatBits THEN RoundEnd(s, BShr(m, 1).q, e + 1)
    ELSE RoundEnd(s, m, e)

\* a is the number with one bit after the significand, q the significand:
\* up when the bit is set and either more follows or q is odd.
RoundHalf(s, a, q, sticky, e) ==
    RoundCarry(s, IF BIsOdd(a.q) /\ (a.sticky \/ sticky \/ BIsOdd(q))
                  THEN BAdd(q, <<1>>) ELSE q, e)

\* The float of (-1)^s * (M + f) * 2^e with the exponent te.
RoundTo(s, M, e, sticky, te) ==
    IF te <= e
    THEN IF BBits(M) + e > FloatMaxExp THEN Inf(s)
         ELSE Fin(s, BShl(M, e - te), te)
    ELSE RoundHalf(s, BShr(M, te - e - 1), BShr(M, te - e).q, sticky, te)

\* The float nearest to (-1)^s * (M + f) * 2^e, where 0 <= f < 1 and f > 0 just
\* when sticky; ties go to the even significand.  A sticky M has over 54 bits.
RoundFloat(s, M, e, sticky) ==
    IF M = <<>> THEN Zero(s)
    ELSE RoundTo(s, M, e, sticky, Max(FloatMinExp, e + BBits(M) - FloatBits))

\* float(n) of an int n.
FromInt(n) == RoundFloat(IF n < 0 THEN 1 ELSE 0,
                         BFromInt(IF n < 0 THEN 0 - n ELSE n), 0, FALSE)

Neg(x) == IF x.k \in {"fin", "inf"} THEN [x EXCEPT !.s = 1 - x.s] ELSE x
Abs(x) == IF x.k \in {"fin", "inf"} THEN [x EXCEPT !.s = 0] ELSE x

\* (-1)^sx * mx * 2^e + (-1)^sy * my * 2^e for mx and my above zero.
AddAligned(sx, mx, sy, my, e) ==
    IF sx # sy /\ mx = my THEN Zero(0)
    ELSE RoundFloat(IF sx = sy \/ BCmp(mx, my) > 0 THEN sx ELSE sy,
                    IF sx = sy THEN BAdd(mx, my)
                    ELSE IF BCmp(mx, my) > 0 THEN BSub(mx, my)
                    ELSE BSub(my, mx),
                    e, FALSE)

\* x + y of two finite floats, |x| having the exponent that is not smaller.
AddFin(x, y) ==
    IF y.m = <<>> THEN (IF x.m = <<>> /\ x.s # y.s THEN Zero(0) ELSE x)
    ELSE IF x.m = <<>> THEN y
    ELSE IF x.e - y.e > FloatBits + 3 THEN x
    ELSE AddAligned(x.s, BShl(x.m, x.e - y.e), y.s, y.m, y.e)

Add(x, y) ==
    IF IsErr(x) THEN x ELSE IF IsErr(y) THEN y
    ELSE IF x.k = "nan" \/ y.k = "nan" THEN NaN
    ELSE IF x.k = "inf" THEN (IF y.k = "inf" /\ y.s # x.s THEN NaN ELSE x)
    ELSE IF y.k = "inf" THEN y
    ELSE AddFin(IF x.e >= y.e THEN x ELSE y, IF x.e >= y.e THEN y ELSE x)

Sub(x, y) == Add(x, Neg(y))

Mul(x, y) ==
    IF IsErr(x) THEN x ELSE IF IsErr(y) THEN y
    ELSE IF x.k = "nan" \/ y.k = "nan" THEN NaN
    ELSE IF x.k = "inf" \/ y.k = "inf"
         THEN (IF IsZero(x) \/ IsZero(y) THEN NaN ELSE Inf(Xor(x.s, y.s)))
    ELSE RoundFloat(Xor(x.s, y.s), BMul(x.m, y.m), x.e + y.e, FALSE)

\* The float of the quotient d of significands, (-1)^s * d * 2^e.
DivRound(s, d, e) == RoundFloat(s, d.q, e, d.sticky)

\* x / y of two finite floats that are not zero: the significand of x is
\* shifted by k bits, so that the quotient has 56 bits or more.
DivFin(x, y, k) ==
    DivRound(Xor(x.s, y.s), BDiv(BShl(x.m, k), y.m), x.e - y.e - k)

\* x / y: Python raises ZeroDivisionError for a zero divisor, whatever x is.
Div(x, y) ==
    IF IsErr(x) THEN x ELSE IF IsErr(y) THEN y
    ELSE IF IsZero(y) THEN ZeroDivisionError
    ELSE IF x.k = "nan" \/ y.k = "nan" THEN NaN
    ELSE IF x.k = "inf" THEN (IF y.k = "inf" THEN NaN ELSE Inf(Xor(x.s, y.s)))
    ELSE IF y.k = "inf" \/ x.m = <<>> THEN Zero(Xor(x.s, y.s))
    ELSE DivFin(x, y, FloatBits + 3 + BBits(y.m) - BBits(x.m))

\* A significand with its exponent, cut to PowBits bits; st tells that bits
\* were cut off.
PowBits == 7 * LimbBits

PowShift(c, e, st) == [m |-> c.q, e |-> e, st |-> st \/ c.sticky]

PowCut(m, e, st) ==
    IF BBits(m) <= PowBits THEN [m |-> m, e |-> e, st |-> st]
    ELSE PowShift(BShr(m, BBits(m) - PowBits), e + BBits(m) - PowBits, st)

PowMul(a, b) == PowCut(BMul(a.m, b.m), a.e + b.e, a.st \/ b.st)

\* a^n from h = a^(n \div 2).
PowStep(a, n, h) == IF n % 2 = 0 THEN PowMul(h, h)
                    ELSE PowMul(PowMul(h, h), a)

RECURSIVE PowAcc(_, _)
PowAcc(a, n) == IF n = 1 THEN a ELSE PowStep(a, n, PowAcc(a, n \div 2))

\* A power too large for a float raises OverflowError.
PowResult(r) == IF r.k = "inf" THEN OverflowError ELSE r

PowRound(s, p) == PowResult(RoundFloat(s, p.m, p.e, p.st))

\* x ** n for an int n >= 1.  The power is computed to 98 bits and rounded
\* once, which gives the correctly rounded power; the pow of a C library may
\* differ from it in the last bit of a result that lies next to the middle
\* between two floats.  A result too small for a float is zero.
Pow(x, n) ==
    IF IsErr(x) THEN x
    ELSE IF x.k = "nan" THEN NaN
    ELSE IF x.k = "inf" THEN Inf(IF n % 2 = 1 THEN x.s ELSE 0)
    ELSE IF x.m = <<>> THEN Zero(IF n % 2 = 1 THEN x.s ELSE 0)
    ELSE PowRound(IF n % 2 = 1 THEN x.s ELSE 0,
                  PowAcc([m |-> x.m, e |-> x.e, st |-> FALSE], n))

\* The order of two floats that are not NaN and not below zero: -1, 0 or 1.
CmpMag(x, y) ==
    IF x.k = "inf" THEN (IF y.k = "inf" THEN 0 ELSE 1)
    ELSE IF y.k = "inf" THEN -1
    ELSE IF x.m = <<>> THEN (IF y.m = <<>> THEN 0 ELSE -1)
    ELSE IF y.m = <<>> THEN 1
    ELSE IF x.e # y.e THEN (IF x.e > y.e THEN 1 ELSE -1)
    ELSE BCmp(x.m, y.m)

Cmp(x, y) ==
    IF IsZero(x) /\ IsZero(y) THEN 0
    ELSE IF x.s # y.s THEN (IF x.s = 1 THEN -1 ELSE 1)
    ELSE CmpMag(IF x.s = 0 THEN x ELSE y, IF x.s = 0 THEN y ELSE x)

\* x < y, x <= y and x == y; a comparison with NaN is False.
Lt(x, y) == x.k # "nan" /\ y.k # "nan" /\ Cmp(x, y) < 0
Le(x, y) == x.k # "nan" /\ y.k # "nan" /\ Cmp(x, y) <= 0
Eq(x, y) == x.k # "nan" /\ y.k # "nan" /\ Cmp(x, y) = 0

\* The float of the decimal literal n/d (such as 0.01, n = 1 and d = 100).
Dec(n, d) == Div(FromInt(n), FromInt(d))

(***************************************************************************)
(* class FinancialCalculator.  An int argument takes part in the float     *)
(* arithmetic as the float of the same value.                              *)
(***************************************************************************)
\* None, and the value of a local that is not bound.
None == [k |-> "None", s |-> 0, m |-> <<>>, e |-> 0]

\* The total interest without the product: C2 does not hold of it.
calculate_total_interest_unscaled(monthly_interest, n) == monthly_interest

calculate_total_interest(monthly_interest, n) ==
    Mul(monthly_interest, FromInt(n))

calculate_interest_rate(total_interest, p) ==
    IF Le(p, Zero(0)) THEN Zero(0)
    ELSE Mul(Div(total_interest, p), FromInt(100))

calculate_monthly_payment(p, total_interest, n) ==
    IF n <= 0 THEN Zero(0)
    ELSE Div(Add(p, total_interest), FromInt(n))

calculate_annual_rate(monthly_irr) ==
    Mul(Mul(monthly_irr, FromInt(12)), FromInt(100))

\* The constants of calculate_irr.
max_iterations == 100
tolerance == Dec(1, 1000000)
initial_irr == Dec(1, 100)
flat_derivative == Div(FromInt(1), Mul(FromInt(100000), FromInt(100000)))
lowest_irr == Dec(-999, 1000)
clamped_irr == Dec(-99, 100)

\* The guard without its test of periods: C5 does not hold of it.
degenerate_amounts(p, a, n) == Le(p, Zero(0)) \/ Le(a, Zero(0))

\* if principal <= 0 or monthly_payment <= 0 or periods <= 0: return 0.0
degenerate(p, a, n) == Le(p, Zero(0)) \/ Le(a, Zero(0)) \/ n <= 0

\* One term of the sum of npv, and one of npv_derivative.
npv_term(a, rate, j) == Div(a, Pow(Add(FromInt(1), rate), j))
npv_derivative_term(a, rate, j) ==
    Div(Mul(FromInt(j), a), Pow(Add(FromInt(1), rate), j + 1))

\* new_irr = irr - current_npv / derivative
newton(rate, f, df) == Sub(rate, Div(f, df))

\* if abs(derivative) < 1e-10: break
is_flat(df) == Lt(Abs(df), flat_derivative)

\* if abs(new_irr - irr) < tolerance: break
has_converged(new, rate) == Lt(Abs(Sub(new, rate)), tolerance)

\* irr = new_irr; if irr < -0.999: irr = -0.99
next_irr(new) == IF Lt(new, lowest_irr) THEN clamped_irr ELSE new

\* The result without max: C4 does not hold of it.
irr_unclamped(rate) == rate

\* return max(0, irr): the int 0 unless irr > 0.
irr_result(rate) == IF Lt(Zero(0), rate) THEN rate ELSE Zero(0)

\* if rate <= -1: return float('inf'), of npv and of npv_derivative.
rate_out_of_range(rate) == Le(rate, FromInt(-1))

(***************************************************************************)
(* The state.  A call of calculate_irr is run one step at a time: pc is    *)
(* the position in its code, the variables named after its locals hold     *)
(* their values, and ret is what the call gave back, a float or the        *)
(* exception it raised.                                                    *)
(***************************************************************************)
VARIABLES
    pc,              \* "idle", "loop", "npv", "derivative", "newton", "return", "done", "raised"
    caller,          \* who called calculate_irr
    principal, monthly_payment, periods,      \* the arguments of calculate_irr
    irr, iteration,  \* the estimate, and the number of finished iterations
    i, total,        \* the locals of the running npv or npv_derivative
    current_npv, derivative, new_irr,
    leave,           \* how the call left the loop, and what it held then
    ret,             \* the result of the last finished call
    rec, made,       \* the LoanRecord under study, and its fields as constructed
    out, reads, nreads,  \* the last query and its value; first value of each query
    request,         \* the arguments of the last constructor call or handler
    records, table,  \* LoanCalculatorWindow: self.records, and the rows of self.table
    message,         \* the last message box shown
    current_sort_column, sort_order   \* LoanCalculatorWindow: the last sorting

locals == <<irr, iteration, i, total, current_npv, derivative, new_irr>>
arguments == <<principal, monthly_payment, periods>>
record_vars == <<rec, made, out, reads, nreads>>
sort_vars == <<current_sort_column, sort_order>>
window_vars == <<request, records, table, message, sort_vars>>
vars == <<pc, caller, arguments, locals, leave, ret, record_vars, window_vars>>

no_exit == [how |-> "none", irr |-> None, new_irr |-> None, iterations |-> 0,
            evaluations |-> 0, inf_branch |-> FALSE]

\* The frame of calculate_irr is gone: after its return, or its exception.
pop_frame ==
    /\ irr' = None /\ iteration' = 0 /\ i' = 0 /\ total' = None
    /\ current_npv' = None /\ derivative' = None /\ new_irr' = None

\* calculate_irr(p, a, n), called by who.
calculate_irr(who, p, a, n) ==
    /\ caller' = who
    /\ principal' = p /\ monthly_payment' = a /\ periods' = n
    /\ IF degenerate(p, a, n)
       THEN /\ pc' = "done"
            /\ ret' = Zero(0)
            /\ leave' = [no_exit EXCEPT !.how = "guard"]
            /\ UNCHANGED locals
       ELSE /\ pc' = "loop"
            /\ irr' = initial_irr
            /\ leave' = no_exit
            /\ UNCHANGED <<iteration, i, total, current_npv, derivative,
                           new_irr, ret>>

\* for _ in range(max_iterations): the head of the loop, and the entry of
\* npv(irr).  At a rate <= -1 npv and npv_derivative both return inf at once.
irr_loop ==
    /\ pc = "loop"
    /\ IF iteration >= max_iterations
       THEN /\ pc' = "return"
            /\ leave' = [leave EXCEPT !.how = "cap"]
            /\ UNCHANGED <<i, total, current_npv, derivative>>
       ELSE IF rate_out_of_range(irr)
       THEN /\ pc' = "newton"
            /\ current_npv' = Inf(0)
            /\ derivative' = Inf(0)
            /\ leave' = [leave EXCEPT !.inf_branch = TRUE,
                                      !.evaluations = @ + 1]
            /\ UNCHANGED <<i, total>>
       ELSE /\ pc' = "npv"
            /\ total' = Neg(principal)
            /\ i' = 1
            /\ leave' = [leave EXCEPT !.evaluations = @ + 1]
            /\ UNCHANGED <<current_npv, derivative>>
    /\ UNCHANGED <<caller, arguments, irr, iteration, new_irr, ret,
                   record_vars, window_vars>>

\* An exception leaves calculate_irr: the frame of the call is gone.
raise(e) ==
    /\ pc' = "raised"
    /\ ret' = e
    /\ leave' = [leave EXCEPT !.how = "raised", !.irr = irr,
                              !.iterations = iteration]
    /\ pop_frame

\* One turn of the loop of npv, or its return and the entry of
\* npv_derivative.
npv ==
    /\ pc = "npv"
    /\ IF i <= periods
       THEN LET t == Add(total, npv_term(monthly_payment, irr, i))
            IN  IF IsErr(t)
                THEN raise(t)
                ELSE /\ pc' = "npv" /\ total' = t /\ i' = i + 1
                     /\ UNCHANGED <<irr, iteration, current_npv, derivative,
                                    new_irr, leave, ret>>
       ELSE /\ current_npv' = total
            /\ IF rate_out_of_range(irr)
               THEN /\ pc' = "newton"
                    /\ derivative' = Inf(0)
                    /\ leave' = [leave EXCEPT !.inf_branch = TRUE]
                    /\ UNCHANGED <<i, total>>
               ELSE /\ pc' = "derivative"
                    /\ total' = Zero(0)
                    /\ i' = 1
                    /\ UNCHANGED <<derivative, leave>>
            /\ UNCHANGED <<irr, iteration, new_irr, ret>>
    /\ UNCHANGED <<caller, arguments, record_vars, window_vars>>

\* One turn of the loop of npv_derivative, or its return.
npv_derivative ==
    /\ pc = "derivative"
    /\ IF i <= periods
       THEN LET t == Sub(total, npv_derivative_term(monthly_payment, irr, i))
            IN  IF IsErr(t)
                THEN raise(t)
                ELSE /\ pc' = "derivative" /\ total' = t /\ i' = i + 1
                     /\ UNCHANGED <<irr, iteration, current_npv, derivative,
                                    new_irr, leave, ret>>
       ELSE /\ pc' = "newton"
            /\ derivative' = total
            /\ UNCHANGED <<irr, iteration, i, total, current_npv, new_irr,
                           leave, ret>>
    /\ UNCHANGED <<caller, arguments, record_vars, window_vars>>

\* The rest of the loop body: the two breaks, the step and the clamp.
irr_step ==
    /\ pc = "newton"
    /\ IF is_flat(derivative)
       THEN /\ pc' = "return"
            /\ leave' = [leave EXCEPT !.how = "flat"]
            /\ UNCHANGED <<irr, iteration, new_irr>>
       ELSE LET new == newton(irr, current_npv, derivative)
            IN  /\ new_irr' = new
                /\ IF has_converged(new, irr)
                   THEN /\ pc' = "return"
                        /\ leave' = [leave EXCEPT !.how = "converged"]
                        /\ UNCHANGED <<irr, iteration>>
                   ELSE /\ pc' = "loop"
                        /\ irr' = next_irr(new)
                        /\ iteration' = iteration + 1
                        /\ UNCHANGED leave
    /\ UNCHANGED <<caller, arguments, i, total, current_npv, derivative, ret,
                   record_vars, window_vars>>

\* return max(0, irr); the frame of the call is gone.
irr_return ==
    /\ pc = "return"
    /\ pc' = "done"
    /\ ret' = irr_result(irr)
    /\ leave' = [leave EXCEPT !.irr = irr, !.new_irr = new_irr,
                              !.iterations = iteration]
    /\ pop_frame
    /\ UNCHANGED <<caller, arguments, record_vars, window_vars>>

(***************************************************************************)
(* Specification Spec: the static methods of FinancialCalculator, called   *)
(* with arguments of a bounded set.  The methods keep no state: a         *)
(* behaviour is one call, from its entry to its return or exception.       *)
(***************************************************************************)
MaxPeriods == 3

no_query == [op |-> "none", args |-> <<>>, value |-> None]
no_request == [op |-> "none"]
no_message == [box |-> "none", text |-> "none"]

\* Amounts of money, as principal, interest or payment.
Amounts ==
    { FromInt(0), FromInt(-50), FromInt(50), FromInt(100), FromInt(1000),
      FromInt(1200) }

PeriodCounts == -1 .. MaxPeriods

\* Calls of calculate_irr outside that grid: the first default loan, a flat
\* derivative, a payment far below the principal, a long loan with a tiny
\* payment, and amounts at the top of the float range.
SpecialCalls ==
    { <<FromInt(10000), Div(FromInt(10600), FromInt(12)), 12>>,
      <<FromInt(100), Div(FromInt(1), Mul(FromInt(100000), FromInt(1000000))), 1>>,
      <<FromInt(1000), FromInt(1), 1>>,
      <<FromInt(100), Dec(5, 10000), 162>>,
      <<Pow(FromInt(10), 308), Mul(FromInt(2), Pow(FromInt(10), 302)), 3>> }

IrrCalls ==
    { <<p, a, n>> : p \in Amounts, a \in Amounts, n \in PeriodCounts }
        \cup SpecialCalls

at_rest == pc = "idle" /\ out.op = "none"

frame_unchanged ==
    UNCHANGED <<caller, arguments, locals, leave, ret>>

call_total_interest ==
    /\ at_rest
    /\ \E v \in Amounts, n \in PeriodCounts :
          out' = [op |-> "calculate_total_interest", args |-> <<v, n>>,
                  value |-> calculate_total_interest(v, n)]
    /\ pc' = "idle"
    /\ frame_unchanged
    /\ UNCHANGED <<rec, made, reads, nreads, window_vars>>

call_interest_rate ==
    /\ at_rest
    /\ \E v \in Amounts, p \in Amounts :
          out' = [op |-> "calculate_interest_rate", args |-> <<v, p>>,
                  value |-> calculate_interest_rate(v, p)]
    /\ pc' = "idle"
    /\ frame_unchanged
    /\ UNCHANGED <<rec, made, reads, nreads, window_vars>>

call_monthly_payment ==
    /\ at_rest
    /\ \E p \in Amounts, v \in Amounts, n \in PeriodCounts :
          out' = [op |-> "calculate_monthly_payment", args |-> <<p, v, n>>,
                  value |-> calculate_monthly_payment(p, v, n)]
    /\ pc' = "idle"
    /\ frame_unchanged
    /\ UNCHANGED <<rec, made, reads, nreads, window_vars>>

call_annual_rate ==
    /\ at_rest
    /\ \E r \in Amounts :
          out' = [op |-> "calculate_annual_rate", args |-> <<r>>,
                  value |-> calculate_annual_rate(r)]
    /\ pc' = "idle"
    /\ frame_unchanged
    /\ UNCHANGED <<rec, made, reads, nreads, window_vars>>

call_irr ==
    /\ at_rest
    /\ \E c \in IrrCalls : calculate_irr("user", c[1], c[2], c[3])
    /\ out' = [op |-> "calculate_irr", args |-> <<>>, value |-> None]
    /\ UNCHANGED <<rec, made, reads, nreads, window_vars>>

Init ==
    /\ pc = "idle" /\ caller = "none"
    /\ principal = None /\ monthly_payment = None /\ periods = 0
    /\ irr = None /\ iteration = 0 /\ i = 0 /\ total = None
    /\ current_npv = None /\ derivative = None /\ new_irr = None
    /\ leave = no_exit /\ ret = None
    /\ rec = None /\ made = None
    /\ out = no_query /\ reads = <<>> /\ nreads = 0
    /\ request = no_request
    /\ records = <<>> /\ table = <<>> /\ message = no_message
    /\ current_sort_column = 0 /\ sort_order = "AscendingOrder"

Next ==
    \/ call_total_interest
    \/ call_interest_rate
    \/ call_monthly_payment
    \/ call_annual_rate
    \/ call_irr
    \/ irr_loop
    \/ npv
    \/ npv_derivative
    \/ irr_step
    \/ irr_return

Spec == Init /\ [][Next]_vars

(***************************************************************************)
(* The claims about FinancialCalculator, checked under Spec.               *)
(***************************************************************************)
positive_inputs ==
    Lt(Zero(0), principal) /\ Lt(Zero(0), monthly_payment) /\ periods > 0

\* C4: for principal > 0, payment > 0 and periods > 0 the value returned by
\* calculate_irr is >= 0, whichever way the Newton loop was left: by the flat
\* derivative, by convergence or by the cap, also after a negative or a
\* clamped iterate.
C4_IrrNotNegative ==
    (pc = "done" /\ positive_inputs) => Le(Zero(0), ret)

\* A call with positive inputs has converged at a negative iterate and
\* returned.
C4_NegativeIterateReturned ==
    /\ pc = "done" /\ positive_inputs
    /\ leave.how = "converged" /\ Lt(leave.irr, Zero(0))
    /\ leave.iterations > 0

\* C5: degenerate inputs give exactly 0 and no error: calculate_interest_rate
\* for principal <= 0, whatever the total interest; calculate_monthly_payment
\* for periods <= 0; calculate_irr for principal <= 0, payment <= 0 or
\* periods <= 0, and then without any evaluation of npv and any iteration.
C5_DegenerateGivesZero ==
    /\ (out.op = "calculate_interest_rate" /\ Le(out.args[2], Zero(0)))
          => out.value = Zero(0)
    /\ (out.op = "calculate_monthly_payment" /\ out.args[3] <= 0)
          => out.value = Zero(0)
    /\ (out.op = "calculate_irr"
          /\ (\/ Le(principal, Zero(0)) \/ Le(monthly_payment, Zero(0))
              \/ periods <= 0))
          => /\ pc = "done" /\ ret = Zero(0)
             /\ leave.how = "guard"
             /\ leave.evaluations = 0 /\ leave.iterations = 0

\* calculate_irr has returned for amounts above zero and no periods.
C5_NoPeriodsReturned ==
    /\ out.op = "calculate_irr" /\ pc = "done"
    /\ Lt(Zero(0), principal) /\ Lt(Zero(0), monthly_payment)
    /\ periods <= 0

\* C6: when the step gives new_irr with |new_irr - irr| < 1e-6, the loop
\* stops and calculate_irr returns max(0, new_irr), the new iterate.
C6_ReturnsNewIterate ==
    (pc = "done" /\ leave.how = "converged")
        => ret = irr_result(leave.new_irr)

\* C7: calculate_irr ends for every input after at most 100 iterations and
\* returns a value; at the cap it returns the current iterate, clamped at 0,
\* and reports no error.
C7_ReturnsWithinCap ==
    /\ iteration <= max_iterations
    /\ pc # "raised"
    /\ (pc = "done" /\ leave.how = "cap")
          => /\ leave.iterations = max_iterations
             /\ ret = irr_result(leave.irr)

\* C10: the rate at which npv and npv_derivative are evaluated is never
\* below -0.999, and their branch for a rate <= -1 is never taken.
C10_RateAboveSingularity ==
    /\ pc \in {"npv", "derivative", "newton"} => Le(lowest_irr, irr)
    /\ ~leave.inf_branch

(***************************************************************************)
(* class LoanRecord.  The timestamp is the text given, or "now" for the    *)
(* reading of the clock.                                                   *)
(***************************************************************************)
\* _auto_calculate: the interest that was not given is derived from the one
\* that was; with both given, or none, nothing is done.
auto_calculate(r) ==
    IF r.monthly_interest # None /\ r.total_interest = None
    THEN [r EXCEPT !.total_interest =
                      calculate_total_interest(r.monthly_interest, r.periods)]
    ELSE IF r.total_interest # None /\ r.monthly_interest = None
    THEN IF r.periods > 0
         THEN [r EXCEPT !.monthly_interest =
                           Div(r.total_interest, FromInt(r.periods))]
         ELSE r
    ELSE r

\* LoanRecord.__init__
LoanRecord(name, p, n, monthly_interest, total_interest, timestamp) ==
    auto_calculate([name |-> name, principal |-> p, periods |-> n,
                    monthly_interest |-> monthly_interest,
                    total_interest |-> total_interest,
                    timestamp |-> IF timestamp = "" THEN "now" ELSE timestamp])

\* x or 0
or_zero(x) == IF x = None \/ IsZero(x) THEN Zero(0) ELSE x

\* The properties interest_rate and monthly_payment.
interest_rate(r) ==
    calculate_interest_rate(or_zero(r.total_interest), r.principal)

monthly_payment_of(r) ==
    calculate_monthly_payment(r.principal, or_zero(r.total_interest),
                              r.periods)

(***************************************************************************)
(* Specification SpecRecord: one LoanRecord is constructed from arguments  *)
(* of a bounded set, and its properties are read, in any order and more    *)
(* than once.  monthly_irr and annual_rate run calculate_irr.  Nothing in  *)
(* the program catches an exception of a property: the behaviour ends      *)
(* where one is raised.                                                    *)
(***************************************************************************)
MaxRecordPeriods == 2
MaxReads == 2

RecordPrincipals == { FromInt(0), FromInt(1000) }
RecordInterests == { None, FromInt(0), FromInt(50) }

\* A loan of 3 periods with a total interest of 0.21, and a long loan that
\* pays back less than it lent.
SpecialRecords ==
    { <<FromInt(1000), 3, None, Dec(21, 100)>>,
      <<FromInt(100), 162, None, Dec(-99919, 1000)>> }

RecordArgs ==
    { <<p, n, mi, ti>> : p \in RecordPrincipals, n \in 0 .. MaxRecordPeriods,
                         mi \in RecordInterests, ti \in RecordInterests }
        \cup SpecialRecords

unread == [interest_rate |-> None, monthly_payment |-> None,
           monthly_irr |-> None, annual_rate |-> None]

\* The first value read of each property is kept.
first_read(op, v) == IF reads[op] = None THEN [reads EXCEPT ![op] = v]
                     ELSE reads

construct ==
    /\ pc = "idle" /\ rec = None
    /\ \E a \in RecordArgs :
          /\ request' = [op |-> "LoanRecord", principal |-> a[1],
                          periods |-> a[2], monthly_interest |-> a[3],
                          total_interest |-> a[4]]
          /\ LET r == LoanRecord("x", a[1], a[2], a[3], a[4], "")
             IN  rec' = r /\ made' = r
    /\ reads' = unread
    /\ UNCHANGED <<pc, caller, arguments, locals, leave, ret, out, nreads,
                   records, table, message, sort_vars>>

can_read == pc = "idle" /\ rec # None /\ nreads < MaxReads

get_interest_rate ==
    /\ can_read
    /\ LET v == interest_rate(rec)
       IN  /\ out' = [op |-> "interest_rate", args |-> <<>>, value |-> v]
           /\ reads' = first_read("interest_rate", v)
    /\ nreads' = nreads + 1
    /\ UNCHANGED <<pc, caller, arguments, locals, leave, ret, rec, made,
                   window_vars>>

\* The property with `self.total_interest = self.total_interest or 0` done on
\* the record: C9 does not hold of it.
get_monthly_payment_storing ==
    /\ can_read
    /\ LET v == monthly_payment_of(rec)
       IN  /\ out' = [op |-> "monthly_payment", args |-> <<>>, value |-> v]
           /\ reads' = first_read("monthly_payment", v)
    /\ rec' = [rec EXCEPT !.total_interest = or_zero(rec.total_interest)]
    /\ nreads' = nreads + 1
    /\ UNCHANGED <<pc, caller, arguments, locals, leave, ret, made,
                   window_vars>>

get_monthly_payment ==
    /\ can_read
    /\ LET v == monthly_payment_of(rec)
       IN  /\ out' = [op |-> "monthly_payment", args |-> <<>>, value |-> v]
           /\ reads' = first_read("monthly_payment", v)
    /\ nreads' = nreads + 1
    /\ UNCHANGED <<pc, caller, arguments, locals, leave, ret, rec, made,
                   window_vars>>

\* monthly_irr and annual_rate: the call of calculate_irr.
get_monthly_irr ==
    /\ can_read
    /\ calculate_irr("monthly_irr", rec.principal, monthly_payment_of(rec),
                     rec.periods)
    /\ out' = [op |-> "monthly_irr", args |-> <<>>, value |-> None]
    /\ nreads' = nreads + 1
    /\ UNCHANGED <<rec, made, reads, window_vars>>

get_annual_rate ==
    /\ can_read
    /\ calculate_irr("annual_rate", rec.principal, monthly_payment_of(rec),
                     rec.periods)
    /\ out' = [op |-> "annual_rate", args |-> <<>>, value |-> None]
    /\ nreads' = nreads + 1
    /\ UNCHANGED <<rec, made, reads, window_vars>>

\* The property returns what calculate_irr gave, annual_rate after
\* calculate_annual_rate.
property_return ==
    /\ pc = "done"
    /\ caller \in {"monthly_irr", "annual_rate"}
    /\ LET v == IF caller = "annual_rate" THEN calculate_annual_rate(ret)
                ELSE ret
       IN  /\ out' = [out EXCEPT !.value = v]
           /\ reads' = first_read(caller, v)
    /\ pc' = "idle"
    /\ caller' = "none"
    /\ principal' = None /\ monthly_payment' = None /\ periods' = 0
    /\ leave' = no_exit
    /\ ret' = None
    /\ UNCHANGED <<locals, rec, made, nreads, window_vars>>

NextRecord ==
    \/ construct
    \/ get_interest_rate
    \/ get_monthly_payment
    \/ get_monthly_irr
    \/ get_annual_rate
    \/ property_return
    \/ irr_loop
    \/ npv
    \/ npv_derivative
    \/ irr_step
    \/ irr_return

SpecRecord == Init /\ [][NextRecord]_vars

(***************************************************************************)
(* The claims about LoanRecord, checked under SpecRecord.                  *)
(***************************************************************************)
\* The constructor was called with principal > 0, periods > 0 and just one of
\* the two interests, a value >= 0.
only_monthly_interest ==
    /\ request.op = "LoanRecord"
    /\ Lt(Zero(0), request.principal) /\ request.periods > 0
    /\ request.monthly_interest # None /\ request.total_interest = None
    /\ Le(Zero(0), request.monthly_interest)

only_total_interest ==
    /\ request.op = "LoanRecord"
    /\ Lt(Zero(0), request.principal) /\ request.periods > 0
    /\ request.total_interest # None /\ request.monthly_interest = None
    /\ Le(Zero(0), request.total_interest)

both_interests_set ==
    rec.monthly_interest # None /\ rec.total_interest # None

\* total_interest and monthly_interest * periods differ by less than one part
\* in 10^9 of total_interest.
nearly_consistent ==
    Le(Abs(Sub(Mul(rec.monthly_interest, FromInt(rec.periods)),
               rec.total_interest)),
       Mul(rec.total_interest, Dec(1, 1000000000)))

\* C2, as the claim states it: for principal > 0, periods > 0 and v >= 0, a
\* record made from monthly_interest = v alone has total_interest =
\* v * periods, one made from total_interest = v alone has monthly_interest =
\* v / periods, and in both cases both fields are set and total_interest ==
\* monthly_interest * periods.
C2_ExactlyConsistent ==
    /\ only_monthly_interest
          => /\ both_interests_set
             /\ Eq(rec.total_interest,
                   Mul(request.monthly_interest, FromInt(rec.periods)))
             /\ Eq(rec.total_interest,
                   Mul(rec.monthly_interest, FromInt(rec.periods)))
    /\ only_total_interest
          => /\ both_interests_set
             /\ Eq(rec.monthly_interest,
                   Div(request.total_interest, FromInt(rec.periods)))
             /\ Eq(rec.total_interest,
                   Mul(rec.monthly_interest, FromInt(rec.periods)))

\* C2, amended: the same, but for a record made from total_interest alone
\* total_interest and monthly_interest * periods agree only up to the
\* rounding of the division and the product.
C2_ConsistentUpToRounding ==
    /\ only_monthly_interest
          => /\ both_interests_set
             /\ rec.monthly_interest = request.monthly_interest
             /\ Eq(rec.total_interest,
                   Mul(request.monthly_interest, FromInt(rec.periods)))
             /\ Eq(rec.total_interest,
                   Mul(rec.monthly_interest, FromInt(rec.periods)))
    /\ only_total_interest
          => /\ both_interests_set
             /\ rec.total_interest = request.total_interest
             /\ Eq(rec.monthly_interest,
                   Div(request.total_interest, FromInt(rec.periods)))
             /\ nearly_consistent

\* A record was made from a total interest alone whose division by the
\* periods is not exact.
C2_RoundedInterestDerived ==
    /\ only_total_interest /\ both_interests_set
    /\ ~Eq(rec.total_interest,
           Mul(rec.monthly_interest, FromInt(rec.periods)))

\* C8: no read of interest_rate, monthly_payment, monthly_irr or annual_rate
\* raises an exception, whatever record the constructor has made.
C8_QueriesNeverRaise ==
    /\ ~(pc = "raised" /\ caller \in {"monthly_irr", "annual_rate"})
    /\ out.value.k \notin {"ZeroDivisionError", "OverflowError"}

\* C9: the reads leave the fields of the record as the constructor made
\* them, and a read of a property returns what the first read of that
\* property returned, whatever was read in between.
C9_QueriesPure ==
    /\ rec # None => rec = made
    /\ (out.op \in DOMAIN unread /\ out.value # None)
          => out.value = reads[out.op]

\* annual_rate was read twice, nothing else, and returned a rate above zero
\* the second time.
C9_AnnualRateReadTwice ==
    /\ pc = "idle" /\ nreads = 2
    /\ out.op = "annual_rate" /\ out.value # None
    /\ Lt(Zero(0), out.value)
    /\ reads.interest_rate = None /\ reads.monthly_payment = None
    /\ reads.monthly_irr = None

(***************************************************************************)
(* class LoanCalculatorWindow.  The state is self.records and the rows of  *)
(* self.table.  What the user has put into the widgets and the dialogs     *)
(* (the inputs of the form, the selected row, the answer to a question,    *)
(* the file chosen) is the input of a handler; request keeps it, and       *)
(* message keeps the message box the handler has shown.  A row of the      *)
(* table holds the values that refresh_table shows in its cells, not their *)
(* texts; the cell of annual_rate is left out of the row: its value is the *)
(* result of calculate_irr, which Spec and SpecRecord describe.            *)
(* save_to_csv changes nothing of this state and is not an action here;    *)
(* the files that load_from_csv reads are inputs of a bounded set.         *)
(***************************************************************************)
\* The cells of one row.
table_row(r) ==
    [name |-> r.name, principal |-> r.principal, periods |-> r.periods,
     monthly_interest |-> or_zero(r.monthly_interest),
     total_interest |-> or_zero(r.total_interest),
     interest_rate |-> interest_rate(r), timestamp |-> r.timestamp]

\* refresh_table: one row for each record, in the order of self.records.
refresh_table(rs) == [j \in 1 .. Len(rs) |-> table_row(rs[j])] \o <<>>

default_records ==
    << LoanRecord("A", FromInt(10000), 12, FromInt(50), None, ""),
       LoanRecord("B", FromInt(20000), 24, FromInt(80), None, ""),
       LoanRecord("C", FromInt(5000), 6, FromInt(30), None, "") >>

box(kind, text) == [box |-> kind, text |-> text]

\* A cell of a CSV file: the column is missing from the file, the text is
\* not a number, or it is the number v.
no_column == [k |-> "missing", v |-> None]
not_a_number == [k |-> "bad", v |-> None]
number(v) == [k |-> "text", v |-> v]

\* float(row.get(column, 0)) and int(row.get(column, 0)), where they return.
float_of(cell) == IF cell.k = "missing" THEN FromInt(0) ELSE cell.v
int_of(cell) == IF cell.k = "missing" THEN 0 ELSE cell.v

\* The row raises no ValueError.
row_parses(row) ==
    /\ row.principal.k # "bad" /\ row.periods.k # "bad"
    /\ row.monthly_interest.k # "bad" /\ row.total_interest.k # "bad"

\* An interest that is not above zero is handed on as None.
interest_or_none(v) == IF Lt(Zero(0), v) THEN v ELSE None

record_of_row(row) ==
    LoanRecord(row.name, float_of(row.principal), int_of(row.periods),
               interest_or_none(float_of(row.monthly_interest)),
               interest_or_none(float_of(row.total_interest)),
               row.timestamp)

\* The records of the rows that parse, in the order of the file.
records_of_file(rows) ==
    [j \in 1 .. Len(SelectSeq(rows, row_parses)) |->
        record_of_row(SelectSeq(rows, row_parses)[j])] \o <<>>

(***************************************************************************)
(* Specification SpecWindow: the window after its construction, and its    *)
(* handlers called in any order, with inputs of bounded sets.  The inputs  *)
(* of the form lie in the ranges of its widgets: the principal is at       *)
(* least 0.01 and the periods at least 1.  The headers that are clicked    *)
(* are those of the columns of SortColumns.                                *)
(***************************************************************************)
MaxRecords == 3
MaxRows == 1

Names == { "", "x" }
FormPrincipals == { FromInt(1000) }
FormPeriods == { 12 }
FormMonthlyInterests == { FromInt(0), FromInt(50) }
FormTotalInterests == { FromInt(0), FromInt(700) }

\* Rows of CSV files: one as save_to_csv writes it, with both interests;
\* one of a file without the columns of the amounts; and one with a
\* principal that is no number.
CsvRows ==
    { [name |-> "a", principal |-> number(FromInt(1000)),
       periods |-> number(12), monthly_interest |-> number(FromInt(50)),
       total_interest |-> number(FromInt(600)), timestamp |-> "saved"],
      [name |-> "c", principal |-> no_column, periods |-> no_column,
       monthly_interest |-> no_column, total_interest |-> no_column,
       timestamp |-> "saved"],
      [name |-> "d", principal |-> not_a_number, periods |-> number(12),
       monthly_interest |-> number(FromInt(50)),
       total_interest |-> number(FromInt(0)), timestamp |-> "saved"] }

CsvFiles ==
    UNION { [1 .. n -> CsvRows] : n \in 0 .. MaxRows }

\* What the file dialog gives: a file, or none when it was closed.
no_file == [chosen |-> FALSE, rows |-> <<>>]
FileChoices == {no_file} \cup {[chosen |-> TRUE, rows |-> f] : f \in CsvFiles}

calculator_unchanged ==
    UNCHANGED <<pc, caller, arguments, locals, leave, ret, record_vars>>

\* LoanCalculatorWindow.__init__: load_default_data and its refresh_table.
InitWindow ==
    /\ pc = "idle" /\ caller = "none"
    /\ principal = None /\ monthly_payment = None /\ periods = 0
    /\ irr = None /\ iteration = 0 /\ i = 0 /\ total = None
    /\ current_npv = None /\ derivative = None /\ new_irr = None
    /\ leave = no_exit /\ ret = None
    /\ rec = None /\ made = None
    /\ out = no_query /\ reads = <<>> /\ nreads = 0
    /\ request = [op |-> "load_default_data"]
    /\ records = default_records
    /\ table = refresh_table(default_records)
    /\ message = no_message
    /\ current_sort_column = 0 /\ sort_order = "AscendingOrder"

\* self.records becomes rs, and refresh_table() shows it.
set_records(rs) ==
    /\ records' = rs
    /\ table' = refresh_table(rs)

add_record ==
    /\ Len(records) < MaxRecords
    /\ \E name \in Names, p \in FormPrincipals, n \in FormPeriods,
          mi \in FormMonthlyInterests, ti \in FormTotalInterests :
          /\ request' = [op |-> "add_record", name |-> name, principal |-> p,
                         periods |-> n, monthly_interest |-> mi,
                         total_interest |-> ti]
          /\ IF name = ""
             THEN /\ message' = box("warning", "name")
                  /\ UNCHANGED <<records, table>>
             ELSE IF Le(p, Zero(0))
             THEN /\ message' = box("warning", "principal")
                  /\ UNCHANGED <<records, table>>
             ELSE IF n <= 0
             THEN /\ message' = box("warning", "periods")
                  /\ UNCHANGED <<records, table>>
             ELSE IF Eq(mi, Zero(0)) /\ Eq(ti, Zero(0))
             THEN /\ message' = box("warning", "interest")
                  /\ UNCHANGED <<records, table>>
             ELSE /\ set_records(Append(records,
                                 LoanRecord(name, p, n, interest_or_none(mi),
                                            interest_or_none(ti), "")))
                  /\ message' = box("information", "added")
    /\ UNCHANGED sort_vars
    /\ calculator_unchanged

\* The refresh button.
refresh_button ==
    /\ request' = [op |-> "refresh_table"]
    /\ table' = refresh_table(records)
    /\ UNCHANGED <<records, message>>
    /\ UNCHANGED sort_vars
    /\ calculator_unchanged

\* del self.records[row], for a row counted from 0.
without_row(rs, row) == SubSeq(rs, 1, row) \o SubSeq(rs, row + 2, Len(rs))

\* row is self.table.currentRow(), -1 when no row is selected.
delete_selected ==
    /\ \E row \in -1 .. Len(table) - 1, reply \in {"Yes", "No"} :
          IF row >= 0 /\ row < Len(records)
          THEN /\ request' = [op |-> "delete_selected", row |-> row,
                              reply |-> reply]
               /\ message' = box("question", "delete")
               /\ IF reply = "Yes"
                  THEN set_records(without_row(records, row))
                  ELSE UNCHANGED <<records, table>>
          ELSE /\ request' = [op |-> "delete_selected", row |-> row,
                              reply |-> "none"]
               /\ UNCHANGED <<records, table, message>>
    /\ UNCHANGED sort_vars
    /\ calculator_unchanged

clear_all_records ==
    /\ \E reply \in {"Yes", "No"} :
          IF records # <<>>
          THEN /\ request' = [op |-> "clear_all_records", reply |-> reply]
               /\ message' = box("question", "clear")
               /\ IF reply = "Yes"
                  THEN set_records(<<>>)
                  ELSE UNCHANGED <<records, table>>
          ELSE /\ request' = [op |-> "clear_all_records", reply |-> "none"]
               /\ UNCHANGED <<records, table, message>>
    /\ UNCHANGED sort_vars
    /\ calculator_unchanged

\* The rows of the file are read, the rows that raise ValueError are left
\* out, and the records of the others replace self.records, unless there is
\* none.
load_records(new_records) ==
    IF new_records # <<>>
    THEN /\ set_records(new_records)
         /\ message' = box("information", "loaded")
    ELSE /\ message' = box("warning", "no data")
         /\ UNCHANGED <<records, table>>

load_from_csv ==
    /\ \E file \in FileChoices :
          /\ request' = [op |-> "load_from_csv", file |-> file]
          /\ IF ~file.chosen
             THEN UNCHANGED <<records, table, message>>
             ELSE load_records(records_of_file(file.rows))
    /\ UNCHANGED sort_vars
    /\ calculator_unchanged

\* The columns of the table whose header is clicked: the name and the
\* periods.
SortColumns == { 0, 2 }

\* str(n) for n >= 0: the code points of its decimal digits.
RECURSIVE str(_)
str(n) == IF n < 10 THEN << 48 + n >> ELSE Append(str(n \div 10), 48 + (n % 10))

\* The code points of a name.
name_text(name) ==
    CASE name = "" -> << >>
      [] name = "A" -> << 65 >>
      [] name = "B" -> << 66 >>
      [] name = "C" -> << 67 >>
      [] name = "a" -> << 97 >>
      [] name = "c" -> << 99 >>
      [] name = "x" -> << 120 >>

\* The text of the item that refresh_table has put into a column of a row.
cell_text(row, column) ==
    IF column = 0 THEN name_text(row.name) ELSE str(row.periods)

\* QTableWidgetItem.__lt__: the texts of two items are compared as strings.
text_less(s, t) ==
    \E k \in 1 .. Len(t) :
       /\ \A j \in 1 .. k - 1 : j <= Len(s) /\ s[j] = t[j]
       /\ (k > Len(s) \/ s[k] < t[k])

\* Row k is put before row j: the sorting is stable, and for the
\* descending order the comparison is turned around.
sorts_before(rows, column, order, k, j) ==
    IF order = "AscendingOrder"
    THEN \/ text_less(cell_text(rows[k], column), cell_text(rows[j], column))
         \/ /\ ~text_less(cell_text(rows[j], column), cell_text(rows[k], column))
            /\ k < j
    ELSE \/ text_less(cell_text(rows[j], column), cell_text(rows[k], column))
         \/ /\ ~text_less(cell_text(rows[k], column), cell_text(rows[j], column))
            /\ k < j

\* self.table.sortItems(column, order): the rows of the table, reordered.
sortItems(rows, column, order) ==
    [p \in 1 .. Len(rows) |->
        rows[CHOOSE j \in 1 .. Len(rows) :
                Cardinality({k \in 1 .. Len(rows) :
                                sorts_before(rows, column, order, k, j)})
                    = p - 1]] \o <<>>

\* A click on the header of a column.  self.records is left as it is.
sort_table ==
    /\ \E column \in SortColumns :
          /\ request' = [op |-> "sort_table", column |-> column]
          /\ IF column = current_sort_column
             THEN /\ sort_order' = IF sort_order = "AscendingOrder"
                                   THEN "DescendingOrder"
                                   ELSE "AscendingOrder"
                  /\ UNCHANGED current_sort_column
             ELSE /\ current_sort_column' = column
                  /\ sort_order' = "AscendingOrder"
          /\ table' = sortItems(table, column, sort_order')
    /\ UNCHANGED <<records, message>>
    /\ calculator_unchanged

NextWindow ==
    \/ add_record
    \/ refresh_button
    \/ delete_selected
    \/ clear_all_records
    \/ load_from_csv
    \/ sort_table

SpecWindow == InitWindow /\ [][NextWindow]_vars

(***************************************************************************)
(* The claims that are checked under SpecWindow.                           *)
(***************************************************************************)
\* Both interests are there and neither is zero.
both_supplied(monthly_interest, total_interest) ==
    ~IsZero(monthly_interest) /\ ~IsZero(total_interest)

\* A row of a file that parses, with both interests, or with a principal or
\* a number of periods of zero.
invalid_row(row) ==
    /\ row_parses(row)
    /\ \/ both_supplied(float_of(row.monthly_interest),
                        float_of(row.total_interest))
       \/ IsZero(float_of(row.principal))
       \/ int_of(row.periods) = 0

\* C1: a construction with both interests supplied and not zero, or with a
\* principal or a number of periods of zero, is rejected and no record of it
\* is stored: add_record with both interests ends in a warning, and
\* load_from_csv stores no record of such a row.
C1_InvalidInputRejected ==
    /\ ( /\ request.op = "add_record"
         /\ both_supplied(request.monthly_interest, request.total_interest) )
       => message.box = "warning"
    /\ ( request.op = "load_from_csv" /\ request.file.chosen )
       => \A j \in 1 .. Len(request.file.rows) :
             invalid_row(request.file.rows[j])
             => \A k \in 1 .. Len(records) :
                   records[k].name # request.file.rows[j].name

\* C3: self.records never holds a record with neither interest.
C3_NoRecordWithoutInterest ==
    \A k \in 1 .. Len(records) :
       ~(records[k].monthly_interest = None /\ records[k].total_interest = None)

\* C11: a confirmed delete_selected removes from self.records exactly the
\* record that the selected row of the table shows, and no other record,
\* also after the table has been sorted by a column.
C11_DeleteRemovesShownRecord ==
    [][ (request'.op = "delete_selected" /\ request'.reply = "Yes")
        => \E k \in 1 .. Len(records) :
              /\ table_row(records[k]) = table[request'.row + 1]
              /\ records' = without_row(records, k - 1) ]_vars

=============================================================================
